---------------------------- MODULE Spec2Model ----------------------------
(***************************************************************************)
(* Conjugate gradient solver of conjgrad/solve.go (SolveStoppable,         *)
(* SolvePrec, Solve) as a state machine.                                   *)
(*                                                                         *)
(* Numbers are exact rationals <<p, q>> in lowest terms with q > 0.  The   *)
(* single value NonFinite stands for the results of a division by zero     *)
(* (+Inf, -Inf or NaN of the float64 arithmetic): it absorbs every         *)
(* arithmetic operation, compares FALSE with everything under <=, and is   *)
(* different from 0.                                                       *)
(*                                                                         *)
(* Vectors live in a heap of cells; a linalg.Vector value is a reference   *)
(* (an index into heap).  Copy and Apply allocate a new cell, Scale and    *)
(* Add overwrite the cell of their receiver and return the receiver.       *)
(***************************************************************************)
EXTENDS Integers, Sequences, FiniteSets, TLC

VARIABLES
    t,                \* the operator: a square matrix of integers (rows)
    b,                \* reference of the caller's right-hand side vector
    prec,             \* precision argument (a rational)
    freq,             \* value of the build constant residualUpdateFrequency
    cancelChan,       \* "nil", "open" or "closed"
    heap,             \* sequence of vector cells
    conjVec,          \* reference, 0 before the first assignment
    residual,         \* reference
    solution,         \* reference
    lastResidualDot,  \* rational
    optimalDistance,  \* rational, local of the loop body
    i,                \* loop counter
    pc,               \* "head", "body", "poll" or "done"
    exit,             \* which statement left the loop ("none" while running)
    result,           \* returned reference, 0 before the return
    applies,          \* history: number of t.Apply calls made
    updates,          \* history: number of solution.Add calls made
    divZero,          \* history: a division had a zero denominator
    direct,           \* history: the last residual update was the recomputation
    b0,               \* history: contents of b when the call started
    iAtClose          \* history: value of i when the channel was closed, -1 before

vars == <<t, b, prec, freq, cancelChan, heap, conjVec, residual, solution,
          lastResidualDot, optimalDistance, i, pc, exit, result, applies,
          updates, divZero, direct, b0, iAtClose>>

---------------------------------------------------------------------------
(* Bounds of the input sets *)

MaxEntry == 2

MaxB == 1

residualUpdateFrequency == 20

---------------------------------------------------------------------------
(* float64 arithmetic, exact *)

NonFinite == <<0, 0>>

Zero == <<0, 1>>

IsFinite(x) == x[2] # 0

AbsInt(n) == IF n < 0 THEN 0 - n ELSE n

RECURSIVE GCD(_, _)
GCD(m, n) == IF n = 0 THEN m ELSE GCD(n, m % n)

Norm(p, q) == LET g == GCD(AbsInt(p), q) IN <<p \div g, q \div g>>

Rat(n) == <<n, 1>>

RAdd(x, y) ==
    IF ~IsFinite(x) \/ ~IsFinite(y) THEN NonFinite
    ELSE LET g == GCD(x[2], y[2])
         IN  Norm(x[1] * (y[2] \div g) + y[1] * (x[2] \div g), (x[2] \div g) * y[2])

RMul(x, y) ==
    IF ~IsFinite(x) \/ ~IsFinite(y) THEN NonFinite
    ELSE LET g1 == GCD(AbsInt(x[1]), y[2])
             g2 == GCD(AbsInt(y[1]), x[2])
         IN  <<(x[1] \div g1) * (y[1] \div g2), (x[2] \div g2) * (y[2] \div g1)>>

RNeg(x) == IF IsFinite(x) THEN <<0 - x[1], x[2]>> ELSE NonFinite

RDiv(x, y) ==
    IF ~IsFinite(x) \/ ~IsFinite(y) \/ y[1] = 0 THEN NonFinite
    ELSE IF y[1] > 0 THEN RMul(x, <<y[2], y[1]>>)
    ELSE RMul(x, <<0 - y[2], 0 - y[1]>>)

RAbs(x) == IF IsFinite(x) THEN <<AbsInt(x[1]), x[2]>> ELSE NonFinite

RLeq(x, y) == IsFinite(x) /\ IsFinite(y) /\ x[1] * y[2] <= y[1] * x[2]

RMax(x, y) ==
    IF ~IsFinite(x) \/ ~IsFinite(y) THEN NonFinite
    ELSE IF RLeq(x, y) THEN y ELSE x

IsZeroDenominator(y) == IsFinite(y) /\ y[1] = 0

---------------------------------------------------------------------------
(* linalg.Vector values and the LinTran operator *)

VScale(v, s) == [k \in 1..Len(v) |-> RMul(v[k], s)]

VAdd(u, v) == [k \in 1..Len(u) |-> RAdd(u[k], v[k])]

RECURSIVE DotUpTo(_, _, _)
DotUpTo(u, v, k) ==
    IF k = 0 THEN Zero ELSE RAdd(DotUpTo(u, v, k - 1), RMul(u[k], v[k]))

Dot(u, v) == DotUpTo(u, v, Len(u))

Dim(m) == Len(m)

ApplyTo(m, v) == [r \in 1..Len(m) |-> Dot([k \in 1..Len(m) |-> Rat(m[r][k])], v)]

ZeroVector(n) == [k \in 1..n |-> Zero]

(* heap operations: each yields the new heap; a fresh cell is Len(h) + 1 *)
Alloc(h, v) == Append(h, v)

Fresh(h) == Len(h) + 1

ScaleCell(h, r, s) == [h EXCEPT ![r] = VScale(@, s)]

AddCell(h, r, a) == [h EXCEPT ![r] = VAdd(@, h[a])]

---------------------------------------------------------------------------
(* helpers of solve.go *)

allZero(v) == \A k \in 1..Len(v) : IsFinite(v[k]) /\ v[k][1] = 0

RECURSIVE MaxUpTo(_, _)
MaxUpTo(v, k) == IF k = 0 THEN Zero ELSE RMax(MaxUpTo(v, k - 1), RAbs(v[k]))

greatestValue(v) == MaxUpTo(v, Len(v))

---------------------------------------------------------------------------
(* SolveStoppable.  The steps are functions of the record s of all         *)
(* variables of the call; the actions below install their result.          *)

(* variant: residual = b, without the Copy *)
SetupNoCopy(m, bv, p, f, ch) ==
    LET h == Alloc(<<bv>>, ZeroVector(Dim(m)))
    IN  [t |-> m, b |-> 1, prec |-> p, freq |-> f, cancelChan |-> ch,
         heap |-> h, conjVec |-> 0, residual |-> 1, solution |-> 2,
         lastResidualDot |-> Zero, optimalDistance |-> Zero, i |-> 0,
         pc |-> "head", exit |-> "none", result |-> 0, applies |-> 0,
         updates |-> 0, divZero |-> FALSE, direct |-> FALSE]

(* var declarations, residual = b.Copy(), solution = make(Vector, Dim) *)
Setup(m, bv, p, f, ch) ==
    LET h1 == Alloc(<<bv>>, bv)
        h2 == Alloc(h1, ZeroVector(Dim(m)))
    IN  [t |-> m, b |-> 1, prec |-> p, freq |-> f, cancelChan |-> ch,
         heap |-> h2, conjVec |-> 0, residual |-> 2, solution |-> 3,
         lastResidualDot |-> Zero, optimalDistance |-> Zero, i |-> 0,
         pc |-> "head", exit |-> "none", result |-> 0, applies |-> 0,
         updates |-> 0, divZero |-> FALSE, direct |-> FALSE]

(* return solution *)
Return(s, how) == [s EXCEPT !.pc = "done", !.exit = how, !.result = s.solution]

(* variant: the first iteration leaves lastResidualDot at its zero value *)
FirstDirectionNoDot(s) ==
    LET c == Fresh(s.heap)
        h == Alloc(s.heap, s.heap[s.residual])
    IN  [s EXCEPT !.heap = h, !.conjVec = c]

(* i == 0: conjVec = residual.Copy(); lastResidualDot = conjVec.Dot(conjVec) *)
FirstDirection(s) ==
    LET c == Fresh(s.heap)
        h == Alloc(s.heap, s.heap[s.residual])
    IN  [s EXCEPT !.heap = h, !.conjVec = c, !.lastResidualDot = Dot(h[c], h[c])]

(* variant: lastResidualDot keeps the value of the first iteration *)
NextDirectionStaleDot(s) ==
    LET residualDot == Dot(s.heap[s.residual], s.heap[s.residual])
        projAmount  == RNeg(RDiv(residualDot, s.lastResidualDot))
        c  == Fresh(s.heap)
        h1 == Alloc(s.heap, s.heap[s.residual])
        h2 == ScaleCell(h1, s.conjVec, RNeg(projAmount))
        h3 == AddCell(h2, c, s.conjVec)
    IN  [s EXCEPT !.heap = h3, !.conjVec = c,
                  !.divZero = @ \/ IsZeroDenominator(s.lastResidualDot)]

(* variant: conjVec = residual.Copy().Add(conjVec.Scale(projAmount)) *)
NextDirectionPlusProj(s) ==
    LET residualDot == Dot(s.heap[s.residual], s.heap[s.residual])
        projAmount  == RNeg(RDiv(residualDot, s.lastResidualDot))
        c  == Fresh(s.heap)
        h1 == Alloc(s.heap, s.heap[s.residual])
        h2 == ScaleCell(h1, s.conjVec, projAmount)
        h3 == AddCell(h2, c, s.conjVec)
    IN  [s EXCEPT !.heap = h3, !.conjVec = c, !.lastResidualDot = residualDot,
                  !.divZero = @ \/ IsZeroDenominator(s.lastResidualDot)]

(* i > 0: residualDot, projAmount, lastResidualDot,                        *)
(* conjVec = residual.Copy().Add(conjVec.Scale(-projAmount))               *)
NextDirection(s) ==
    LET residualDot == Dot(s.heap[s.residual], s.heap[s.residual])
        projAmount  == RNeg(RDiv(residualDot, s.lastResidualDot))
        c  == Fresh(s.heap)
        h1 == Alloc(s.heap, s.heap[s.residual])
        h2 == ScaleCell(h1, s.conjVec, RNeg(projAmount))
        h3 == AddCell(h2, c, s.conjVec)
    IN  [s EXCEPT !.heap = h3, !.conjVec = c, !.lastResidualDot = residualDot,
                  !.divZero = @ \/ IsZeroDenominator(s.lastResidualDot)]

(* variant: the loop runs while i <= t.Dim() *)
HeadStepOneMore(s) ==
    IF ~(s.i <= Dim(s.t)) THEN Return(s, "cap")
    ELSE IF RLeq(greatestValue(s.heap[s.residual]), s.prec) THEN Return(s, "converged")
    ELSE LET d == IF s.i = 0 THEN FirstDirection(s) ELSE NextDirection(s)
         IN  IF allZero(d.heap[d.conjVec]) THEN Return(d, "degenerate")
             ELSE [d EXCEPT !.pc = "body"]

(* variant: the convergence check is greatestValue(residual) < prec *)
HeadStepStrict(s) ==
    IF ~(s.i < Dim(s.t)) THEN Return(s, "cap")
    ELSE IF s.prec # greatestValue(s.heap[s.residual])
            /\ RLeq(greatestValue(s.heap[s.residual]), s.prec)
         THEN Return(s, "converged")
    ELSE LET d == IF s.i = 0 THEN FirstDirection(s) ELSE NextDirection(s)
         IN  IF allZero(d.heap[d.conjVec]) THEN Return(d, "degenerate")
             ELSE [d EXCEPT !.pc = "body"]

(* variant: the convergence check is skipped before the first iteration *)
HeadStepNoFirstCheck(s) ==
    IF ~(s.i < Dim(s.t)) THEN Return(s, "cap")
    ELSE IF s.i # 0 /\ RLeq(greatestValue(s.heap[s.residual]), s.prec)
         THEN Return(s, "converged")
    ELSE LET d == IF s.i = 0 THEN FirstDirection(s) ELSE NextDirection(s)
         IN  IF allZero(d.heap[d.conjVec]) THEN Return(d, "degenerate")
             ELSE [d EXCEPT !.pc = "body"]

(* loop condition, convergence check, direction update, allZero check *)
HeadStep(s) ==
    IF ~(s.i < Dim(s.t)) THEN Return(s, "cap")
    ELSE IF RLeq(greatestValue(s.heap[s.residual]), s.prec) THEN Return(s, "converged")
    ELSE LET d == IF s.i = 0 THEN FirstDirection(s) ELSE NextDirection(s)
         IN  IF allZero(d.heap[d.conjVec]) THEN Return(d, "degenerate")
             ELSE [d EXCEPT !.pc = "body"]

(* optimalDistance := conjVec.Dot(residual) / conjVec.Dot(t.Apply(conjVec)) *)
StepSize(s) ==
    LET a   == Fresh(s.heap)
        h   == Alloc(s.heap, ApplyTo(s.t, s.heap[s.conjVec]))
        den == Dot(h[s.conjVec], h[a])
    IN  [s EXCEPT !.heap = h, !.applies = @ + 1,
                  !.optimalDistance = RDiv(Dot(h[s.conjVec], h[s.residual]), den),
                  !.divZero = @ \/ IsZeroDenominator(den)]

(* solution.Add(conjVec.Copy().Scale(optimalDistance)) *)
UpdateSolution(s) ==
    LET c  == Fresh(s.heap)
        h1 == Alloc(s.heap, s.heap[s.conjVec])
        h2 == ScaleCell(h1, c, s.optimalDistance)
        h3 == AddCell(h2, s.solution, c)
    IN  [s EXCEPT !.heap = h3, !.updates = @ + 1]

(* variant: residual = t.Apply(solution).Add(b), without the Scale(-1) *)
RecomputeResidualNoNeg(s) ==
    LET a  == Fresh(s.heap)
        h1 == Alloc(s.heap, ApplyTo(s.t, s.heap[s.solution]))
        h2 == AddCell(h1, a, s.b)
    IN  [s EXCEPT !.heap = h2, !.residual = a, !.applies = @ + 1, !.direct = TRUE]

(* residual = t.Apply(solution).Scale(-1).Add(b) *)
RecomputeResidual(s) ==
    LET a  == Fresh(s.heap)
        h1 == Alloc(s.heap, ApplyTo(s.t, s.heap[s.solution]))
        h2 == ScaleCell(h1, a, Rat(-1))
        h3 == AddCell(h2, a, s.b)
    IN  [s EXCEPT !.heap = h3, !.residual = a, !.applies = @ + 1, !.direct = TRUE]

(* variant: residual.Add(t.Apply(conjVec).Scale(optimalDistance)) *)
IncrementResidualPlus(s) ==
    LET a  == Fresh(s.heap)
        h1 == Alloc(s.heap, ApplyTo(s.t, s.heap[s.conjVec]))
        h2 == ScaleCell(h1, a, s.optimalDistance)
        h3 == AddCell(h2, s.residual, a)
    IN  [s EXCEPT !.heap = h3, !.applies = @ + 1, !.direct = FALSE]

(* residual.Add(t.Apply(conjVec).Scale(-optimalDistance)) *)
IncrementResidual(s) ==
    LET a  == Fresh(s.heap)
        h1 == Alloc(s.heap, ApplyTo(s.t, s.heap[s.conjVec]))
        h2 == ScaleCell(h1, a, RNeg(s.optimalDistance))
        h3 == AddCell(h2, s.residual, a)
    IN  [s EXCEPT !.heap = h3, !.applies = @ + 1, !.direct = FALSE]

(* if i != 0 && (i%residualUpdateFrequency) == 0 { ... } else { ... } *)
UpdateResidual(s) ==
    IF s.i # 0 /\ s.i % s.freq = 0 THEN RecomputeResidual(s) ELSE IncrementResidual(s)

BodyStep(s) == [UpdateResidual(UpdateSolution(StepSize(s))) EXCEPT !.pc = "poll"]

(* variant: the channel is polled on every second iteration only *)
PollStepEverySecond(s) ==
    IF s.cancelChan = "closed" /\ s.i % 2 = 1 THEN Return(s, "cancelled")
    ELSE [s EXCEPT !.i = @ + 1, !.pc = "head"]

(* select { case <-cancelChan: return solution; default: }, then i++ *)
PollStep(s) ==
    IF s.cancelChan = "closed" THEN Return(s, "cancelled")
    ELSE [s EXCEPT !.i = @ + 1, !.pc = "head"]

---------------------------------------------------------------------------
(* Inputs *)

Dims == {1, 2}

Entries == (-1)..MaxEntry

BEntries == (-1)..MaxB

IsSymmetric(m) == \A r, c \in 1..Len(m) : m[r][c] = m[c][r]

SymMatrices(n) == {m \in [1..n -> [1..n -> Entries]] : IsSymmetric(m)}

(* operators of dimension 3: the discrete Laplacian, a diagonal operator,  *)
(* a tridiagonal positive-definite operator and a symmetric operator that  *)
(* is only positive semi-definite                                          *)
Dim3Operators ==
    { << <<2, -1, 0>>, <<-1, 2, -1>>, <<0, -1, 2>> >>,
      << <<1, 0, 0>>, <<0, 2, 0>>, <<0, 0, 3>> >>,
      << <<4, 1, 0>>, <<1, 3, 1>>, <<0, 1, 2>> >>,
      << <<1, 1, 0>>, <<1, 1, 0>>, <<0, 0, 2>> >> }

Dim3B == [1..3 -> {-1, 0, 1}]

Inputs ==
    UNION {{[m |-> m, bv |-> [k \in 1..n |-> Rat(v[k])]] :
               m \in SymMatrices(n), v \in [1..n -> BEntries]} : n \in Dims}
    \cup {[m |-> m, bv |-> [k \in 1..3 |-> Rat(v[k])]] : m \in Dim3Operators, v \in Dim3B}

Precisions == {<<-1, 1>>, <<0, 1>>, <<1, 2>>, <<1, 1>>}

(* residualUpdateFrequency is fixed when the package is built.  The loop is *)
(* run with the shipped value and with 1 and 2 in its place: with 20 the   *)
(* recomputation needs an operator of dimension above 20, with 1 and 2 it  *)
(* happens within the dimensions of Inputs.                                *)
Frequencies == {1, 2, residualUpdateFrequency}

Channels == {"nil", "open"}

---------------------------------------------------------------------------
(* The state machine *)

Cur ==
    [t |-> t, b |-> b, prec |-> prec, freq |-> freq, cancelChan |-> cancelChan,
     heap |-> heap, conjVec |-> conjVec, residual |-> residual,
     solution |-> solution, lastResidualDot |-> lastResidualDot,
     optimalDistance |-> optimalDistance, i |-> i, pc |-> pc, exit |-> exit,
     result |-> result, applies |-> applies, updates |-> updates,
     divZero |-> divZero, direct |-> direct]

Install(s) ==
    /\ t' = s.t /\ b' = s.b /\ prec' = s.prec /\ freq' = s.freq
    /\ cancelChan' = s.cancelChan /\ heap' = s.heap /\ conjVec' = s.conjVec
    /\ residual' = s.residual /\ solution' = s.solution
    /\ lastResidualDot' = s.lastResidualDot
    /\ optimalDistance' = s.optimalDistance /\ i' = s.i /\ pc' = s.pc
    /\ exit' = s.exit /\ result' = s.result /\ applies' = s.applies
    /\ updates' = s.updates /\ divZero' = s.divZero /\ direct' = s.direct

Start(s) ==
    /\ t = s.t /\ b = s.b /\ prec = s.prec /\ freq = s.freq
    /\ cancelChan = s.cancelChan /\ heap = s.heap /\ conjVec = s.conjVec
    /\ residual = s.residual /\ solution = s.solution
    /\ lastResidualDot = s.lastResidualDot
    /\ optimalDistance = s.optimalDistance /\ i = s.i /\ pc = s.pc
    /\ exit = s.exit /\ result = s.result /\ applies = s.applies
    /\ updates = s.updates /\ divZero = s.divZero /\ direct = s.direct

Init ==
    \E in \in Inputs, p \in Precisions, f \in Frequencies, ch \in Channels :
        /\ Start(Setup(in.m, in.bv, p, f, ch))
        /\ b0 = in.bv
        /\ iAtClose = -1

LoopHead == pc = "head" /\ Install(HeadStep(Cur)) /\ UNCHANGED <<b0, iAtClose>>

LoopBody == pc = "body" /\ Install(BodyStep(Cur)) /\ UNCHANGED <<b0, iAtClose>>

Poll == pc = "poll" /\ Install(PollStep(Cur)) /\ UNCHANGED <<b0, iAtClose>>

(* another goroutine closes the channel while the call runs *)
Close ==
    /\ pc # "done"
    /\ cancelChan = "open"
    /\ cancelChan' = "closed"
    /\ iAtClose' = i
    /\ UNCHANGED <<t, b, prec, freq, heap, conjVec, residual, solution,
                   lastResidualDot, optimalDistance, i, pc, exit, result,
                   applies, updates, divZero, direct, b0>>

Step == LoopHead \/ LoopBody \/ Poll

(* SolvePrec(t, b, prec) = SolveStoppable(t, b, prec, nil) *)
IsSolvePrec == cancelChan = "nil"

(* Solve(t, b) = SolvePrec(t, b, 0) *)
IsSolve == IsSolvePrec /\ prec = Zero

Next == LoopHead \/ LoopBody \/ Poll \/ Close

Spec == Init /\ [][Next]_vars

(* The goroutine running the call is scheduled until it returns: while pc  *)
(* is not "done" a step of the call is possible, and every step of the     *)
(* call changes pc.  Advance is exactly "pc changes", so WF_pc(Advance) is *)
(* weak fairness of Step.                                                  *)
Advance == pc # "done" /\ pc' \in {"head", "body", "poll", "done"} /\ pc' # pc

FairSpec == Spec /\ WF_pc(Advance)

---------------------------------------------------------------------------
(* Vocabulary of the properties *)

VSub(u, v) == [k \in 1..Len(u) |-> RAdd(u[k], RNeg(v[k]))]

IsZeroVector(v) == \A k \in 1..Len(v) : v[k] = Zero

(* max |v[k]| <= p, stated entry by entry *)
MaxAbsLeq(v, p) == \A k \in 1..Len(v) : RLeq(RAbs(v[k]), p)

(* leading principal minors, for dimensions up to 3 *)
LeadingMinor(m, k) ==
    IF k = 1 THEN m[1][1]
    ELSE IF k = 2 THEN m[1][1] * m[2][2] - m[1][2] * m[2][1]
    ELSE m[1][1] * (m[2][2] * m[3][3] - m[2][3] * m[3][2])
         - m[1][2] * (m[2][1] * m[3][3] - m[2][3] * m[3][1])
         + m[1][3] * (m[2][1] * m[3][2] - m[2][2] * m[3][1])

(* symmetric positive-definite, by Sylvester's criterion *)
IsSPD(m) == IsSymmetric(m) /\ \A k \in 1..Len(m) : LeadingMinor(m, k) > 0

Positive(x) == IsFinite(x) /\ x[1] > 0

(* the call run to its return with no cancellation: the solution vector    *)
(* after every iteration, then the returned vector                         *)
RECURSIVE Solutions(_)
Solutions(s) ==
    IF s.pc = "done" THEN <<s.heap[s.result]>>
    ELSE IF s.pc = "head" THEN Solutions(HeadStep(s))
    ELSE IF s.pc = "body"
         THEN LET n == BodyStep(s) IN <<n.heap[n.solution]>> \o Solutions(n)
    ELSE Solutions(PollStep(s))

---------------------------------------------------------------------------
(* Properties *)

(* C1: for a symmetric positive-definite t, Solve(t, b) (precision 0, no   *)
(* cancellation) returns x with t.x = b, after at most Dim(t) iterations.  *)
ExactConvergence ==
    (pc = "done" /\ IsSolve /\ IsSPD(t))
        => /\ ApplyTo(t, heap[result]) = b0
           /\ updates <= Dim(t)

ExactConvergenceWitness ==
    /\ pc = "done" /\ IsSolve /\ IsSPD(t)
    /\ Dim(t) = 3 /\ updates = 3

(* C2: every call returns; the loop counter and the number of iterations   *)
(* never exceed Dim(t); the loop is left by exactly one of the four exits  *)
(* (converged at an iteration start, all-zero conjVec, cancellation seen   *)
(* at an iteration end, counter at Dim(t)) and the current solution is     *)
(* what is returned.                                                       *)
ExitCondition ==
    /\ exit \in {"converged", "degenerate", "cancelled", "cap"}
    /\ exit = "converged" =>
           i < Dim(t) /\ MaxAbsLeq(heap[residual], prec) /\ updates = i
    /\ exit = "degenerate" =>
           /\ i < Dim(t) /\ ~MaxAbsLeq(heap[residual], prec)
           /\ IsZeroVector(heap[conjVec]) /\ updates = i
    /\ exit = "cancelled" =>
           i < Dim(t) /\ cancelChan = "closed" /\ updates = i + 1
    /\ exit = "cap" => i = Dim(t) /\ updates = i

Termination ==
    /\ [](i <= Dim(t) /\ updates <= Dim(t))
    /\ [](pc = "done" => ExitCondition /\ result = solution)
    /\ [](pc # "done" => exit = "none" /\ result = 0)
    /\ <>(pc = "done")

TerminationWitness ==
    pc = "done" /\ exit = "cap" /\ Dim(t) = 3 /\ updates = 3 /\ cancelChan = "closed"

(* C3: at the first iteration start where max|residual| <= prec the call   *)
(* returns the solution as it is, with no operator application and no      *)
(* update; when max|b| <= prec the zero vector is returned with zero       *)
(* operator applications.                                                  *)
ReturnsWhenConverged ==
    /\ [][(/\ pc = "head" /\ i < Dim(t) /\ MaxAbsLeq(heap[residual], prec)
           /\ cancelChan' = cancelChan)
          => (/\ pc' = "done" /\ result' = solution /\ heap' = heap
              /\ applies' = applies /\ updates' = updates)]_vars
    /\ []((pc = "done" /\ MaxAbsLeq(b0, prec))
          => applies = 0 /\ IsZeroVector(heap[result]))

ReturnsWhenConvergedWitness ==
    /\ pc = "done" /\ exit = "converged" /\ updates = 1
    /\ ~IsZeroVector(heap[residual])

(* C4 as stated: the check before the first iteration passes only if b is  *)
(* all zero, so SolvePrec with a non-zero b updates solution at least once *)
FirstCheckOnlyForZeroB ==
    (pc = "done" /\ IsSolvePrec /\ ~IsZeroVector(b0)) => updates >= 1

(* C4 amended: the check before the first iteration passes exactly when    *)
(* max|b| <= prec; SolvePrec updates solution at least once whenever b has *)
(* a non-zero entry and max|b| > prec.                                     *)
FirstCheckByPrecision ==
    (pc = "done" /\ IsSolvePrec)
        => /\ (updates = 0 /\ exit = "converged") <=> MaxAbsLeq(b0, prec)
           /\ (~IsZeroVector(b0) /\ ~MaxAbsLeq(b0, prec)) => updates >= 1

FirstCheckByPrecisionWitness ==
    /\ pc = "done" /\ IsSolvePrec /\ ~IsZeroVector(b0)
    /\ updates = 0 /\ applies = 0

(* C5: the channel is looked at only at the end of an iteration; once it   *)
(* is closed the loop counter never advances again, at most the iteration  *)
(* in progress (or the next one) is completed, and the call returns the    *)
(* current solution.                                                       *)
CancelObserved ==
    /\ [](cancelChan = "closed" => i = iAtClose /\ updates <= iAtClose + 1)
    /\ [][(pc = "poll" /\ cancelChan = "closed")
          => (/\ pc' = "done" /\ exit' = "cancelled"
              /\ result' = solution /\ heap' = heap)]_vars
    /\ [][(exit' = "cancelled" /\ exit # "cancelled") => pc = "poll"]_vars
    /\ (cancelChan = "closed") ~> (pc = "done")

CancelObservedWitness ==
    /\ pc = "done" /\ exit = "cancelled" /\ iAtClose = 1 /\ updates = 2

(* C6: the caller's b keeps its contents, and solution (the vector that is *)
(* returned) is a cell of its own, distinct from b, residual and conjVec.  *)
InputsUntouched ==
    /\ heap[b] = b0
    /\ solution # b /\ solution # residual /\ solution # conjVec
    /\ residual # b /\ conjVec # b
    /\ pc = "done" => result = solution

InputsUntouchedWitness ==
    pc = "done" /\ direct /\ updates >= 2 /\ ~IsZeroVector(b0)

(* C7: as long as no division had a zero denominator, residual equals      *)
(* b - t.solution at every iteration start and at every return.            *)
ResidualIsDefect ==
    (pc \in {"head", "done"} /\ ~divZero)
        => heap[residual] = VSub(b0, ApplyTo(t, heap[solution]))

ResidualIsDefectWitness ==
    /\ pc = "head" /\ i = 2 /\ ~direct /\ ~divZero
    /\ ~IsZeroVector(heap[residual])

(* C8 as stated: after the first iteration the new conjVec is              *)
(* residual + beta * conjVec with beta = -residualDot / lastResidualDot.   *)
DirectionAddsBeta ==
    [][(pc = "head" /\ i > 0 /\ conjVec' # conjVec)
       => LET residualDot == Dot(heap[residual], heap[residual])
              beta == RNeg(RDiv(residualDot, lastResidualDot))
          IN  /\ heap'[conjVec'] =
                     VAdd(heap[residual], VScale(heap[conjVec], beta))
              /\ lastResidualDot' = residualDot
              /\ residual' = residual /\ heap'[residual] = heap[residual]]_vars

(* C8 amended: the new conjVec is residual - beta * conjVec, that is       *)
(* residual + (residualDot / lastResidualDot) * conjVec, with beta,        *)
(* residualDot and lastResidualDot as stated; residual is not changed.     *)
DirectionSubtractsBeta ==
    [][(pc = "head" /\ i > 0 /\ conjVec' # conjVec)
       => LET residualDot == Dot(heap[residual], heap[residual])
              beta == RNeg(RDiv(residualDot, lastResidualDot))
          IN  /\ heap'[conjVec'] =
                     VSub(heap[residual], VScale(heap[conjVec], beta))
              /\ lastResidualDot' = residualDot
              /\ residual' = residual /\ heap'[residual] = heap[residual]]_vars

DirectionSubtractsBetaWitness ==
    /\ pc = "body" /\ i = 2 /\ ~divZero
    /\ lastResidualDot = Dot(heap[residual], heap[residual])
    /\ ~IsZeroVector(VSub(heap[conjVec], heap[residual]))

(* C9: for a symmetric positive-definite t the call with the residual      *)
(* recomputed on every iteration after the first (frequency 1, and also    *)
(* frequency 2) and the always-incremental call (frequency above Dim(t))   *)
(* produce the same solution vectors and return the same vector; the       *)
(* recomputation is done exactly on the iterations whose index is a        *)
(* positive multiple of the frequency.                                     *)
DriftCorrectionEquivalence ==
    /\ []((/\ pc = "head" /\ i = 0 /\ IsSolvePrec /\ IsSPD(t)
            /\ freq # residualUpdateFrequency)
          => Solutions(Cur) = Solutions([Cur EXCEPT !.freq = Dim(t) + 1]))
    /\ [][(pc = "body" /\ pc' = "poll")
          => /\ direct' = (i > 0 /\ i % freq = 0)
             /\ (residual' # residual) = (i > 0 /\ i % freq = 0)]_vars

DriftCorrectionEquivalenceWitness ==
    /\ pc = "done" /\ IsSPD(t) /\ freq = 1 /\ direct /\ updates = 3
    /\ IsSolvePrec

(* C10: with a symmetric positive-definite t and prec >= 0 no division has *)
(* a zero denominator: lastResidualDot is positive whenever the beta       *)
(* division is reached, and conjVec is not all zero and                    *)
(* conjVec . t.conjVec is positive whenever the step size is computed.     *)
NoZeroDenominator ==
    (IsSPD(t) /\ RLeq(Zero, prec))
        => /\ ~divZero
           /\ (pc = "head" /\ i > 0) => Positive(lastResidualDot)
           /\ pc = "body" =>
                  /\ ~IsZeroVector(heap[conjVec])
                  /\ Positive(Dot(heap[conjVec], ApplyTo(t, heap[conjVec])))

NoZeroDenominatorWitness ==
    /\ pc = "body" /\ i = 2 /\ IsSPD(t) /\ prec = Zero
    /\ lastResidualDot # Dot(heap[conjVec], heap[conjVec])

====
